---- MODULE Spec2Model ----
(***************************************************************************)
(* State-machine model of landis-sml.py: the SML frame reader (read_sml),  *)
(* the producer (main, dosml) and the delivery workers (SendInflux, which  *)
(* drains the redis list 'stromwertinfluxdb', and SendGraphite).           *)
(*                                                                         *)
(* A redis list is a sequence whose index 1 is the LEFT end (lpush side)   *)
(* and whose last index is the RIGHT end (rpush / rpop side).              *)
(* A Python str is a sequence of tokens; " " and "." are the separator     *)
(* tokens the code splits on.                                              *)
(***************************************************************************)
EXTENDS Integers, Sequences, FiniteSets, TLC

VARIABLES
    queue,        \* redis list 'stromwertinfluxdb'
    pc,           \* position of the SendInflux thread inside run()
    stromwert,    \* local of SendInflux.run: the popped item
    point,        \* local of SendInflux.run: the Point built from the item
    written,      \* sink state: the points the write API accepted, in order
    failed,       \* per timestamp: write calls that raised
    requeued,     \* per timestamp: rpush calls of the worker
    pushed,       \* number of lpush calls of main
    lastop,       \* last operation on the redis list
    prevop,       \* the operation on the redis list before lastop
    input,        \* the bytes the serial line delivers
    pos,          \* number of bytes of input already read
    spanAt,       \* index in input of the first byte of the transport message
    span,         \* the transport message contained in input
    rpc,          \* position of the main thread (main / read_sml)
    max_read,     \* local of read_sml
    start_found,  \* local of read_sml
    d_start,      \* local of read_sml
    d_frame,      \* local of read_sml
    d_end,        \* local of read_sml
    sml_frame,    \* local of read_sml: the result
    handed,       \* the frame main has handed to dosml in this iteration
    error,        \* local of main
    callPos,      \* pos when the current read_sml call started
    searchEnd,    \* pos when the start search of the current call ended
    cutInSpan,    \* a read of the current call timed out inside the span
    mpc,          \* position of the main thread in main() and dosml()
    printed,      \* the operator output: the lines printed so far
    frames,       \* what the decoder made of each read_sml result so far
    idx,          \* dosml: index of the list entry the for loop is at
    gqueue,       \* redis list 'stromwert'
    gpc,          \* position of the SendGraphite thread inside run()
    gstromwert,   \* local of SendGraphite.run: the popped item
    gsent,        \* sink state: the metrics graphite accepted, in order
    gfailed       \* number of graphite sends that raised

qvars == <<queue, pc, stromwert, point, written, failed, requeued, pushed,
           lastop, prevop>>
rvars == <<input, pos, spanAt, span, rpc, max_read, start_found, d_start,
           d_frame, d_end, sml_frame, handed, error, callPos, searchEnd,
           cutInSpan>>
readvars == <<input, pos, spanAt, span, rpc, max_read, start_found, d_start,
              d_frame, d_end, sml_frame, handed, callPos, searchEnd, cutInSpan>>
mvars == <<mpc, printed, frames, idx>>
gvars == <<gqueue, gpc, gstromwert, gsent, gfailed>>
vars == <<queue, pc, stromwert, point, written, failed, requeued, pushed,
          lastop, prevop, input, pos, spanAt, span, rpc, max_read,
          start_found, d_start, d_frame, d_end, sml_frame, handed, error,
          callPos, searchEnd, cutInSpan, mpc, printed, frames, idx,
          gqueue, gpc, gstromwert, gsent, gfailed>>

\* Python None where a str is expected / where bytes are expected
None == <<"None">>

NoneB == <<-1>>

\* ------------------------------------------------------------------ bounds
MaxItems == 3
MaxFail == 2
MaxGarbage == 2
MaxBody == 1

\* --------------------------------------------------------- sequence helpers
Min(a, b) == IF a < b THEN a ELSE b

Occ(s, x) == Cardinality({i \in DOMAIN s : s[i] = x})

Front(s) == SubSeq(s, 1, Len(s) - 1)

Drop(s, n) == SubSeq(s, n + 1, Len(s))

EndsWith(s, pat) ==
    /\ Len(s) >= Len(pat)
    /\ SubSeq(s, Len(s) - Len(pat) + 1, Len(s)) = pat

StartsWith(s, pat) ==
    /\ Len(s) >= Len(pat)
    /\ SubSeq(s, 1, Len(pat)) = pat

\* bytes.find(pat): index (from 1) of the first occurrence, 0 when absent
Find(s, pat) ==
    LET hits == {i \in 1..(Len(s) - Len(pat) + 1) :
                    SubSeq(s, i, i + Len(pat) - 1) = pat}
    IN IF hits = {} THEN 0 ELSE CHOOSE i \in hits : \A j \in hits : i <= j

Contains(s, pat) == Find(s, pat) > 0

\* ------------------------------------------------------------ redis + str
\* redis stores bytes: a str argument is encoded, rpop returns bytes
Encode(s) == [bytes |-> s]

Decode(b) == b.bytes

\* the reply of rpop on an empty list
Nil == [nil |-> TRUE]

lpush_right(q, x) == q \o <<Encode(x)>>

lpush(q, x) == <<Encode(x)>> \o q

rpush_tail(q, x) == <<Encode(x)>> \o q

rpush_lost(q, x) == q

rpush(q, x) == q \o <<Encode(x)>>

\* the popped element (None on an empty list) and the list that remains
rpop_left(q) ==
    IF q = <<>> THEN [item |-> Nil, rest |-> q]
    ELSE [item |-> q[1], rest |-> Drop(q, 1)]

rpop(q) ==
    IF q = <<>> THEN [item |-> Nil, rest |-> q]
    ELSE [item |-> q[Len(q)], rest |-> Front(q)]

\* str.split(sep): the pieces between occurrences of sep, empty ones kept
SplitOn(s, sep) ==
    LET P == {i \in DOMAIN s : s[i] = sep}
        Nth(k) == CHOOSE i \in P : Cardinality({j \in P : j < i}) = k - 1
        From(k) == IF k = 1 THEN 1 ELSE Nth(k - 1) + 1
        To(k) == IF k = Cardinality(P) + 1 THEN Len(s) ELSE Nth(k) - 1
    IN [k \in 1..(Cardinality(P) + 1) |-> SubSeq(s, From(k), To(k))]

\* str.split(): split on whitespace, empty pieces are dropped
SplitWs(s) == SelectSeq(SplitOn(s, " "), LAMBDA piece : piece # <<>>)

OBIS_MAP_GRAPHITE ==
    [c \in {"0100010800ff", "0100020800ff", "0100100700ff"} |->
        CASE c = "0100010800ff" -> <<"Verbrauch", ".", "total">>
          [] c = "0100020800ff" -> <<"Einspeisung", ".", "total">>
          [] c = "0100100700ff" -> <<"Wirkleistung", ".", "aktuell">>]

MetricNames == {OBIS_MAP_GRAPHITE[c] : c \in DOMAIN OBIS_MAP_GRAPHITE}

Values == {"1234.5"}

graphite_frame_noprefix(name, value, ts) == name \o <<" ", value, " ", ts>>

\* f'Strom.{OBIS_MAP_GRAPHITE[obis]} {value} {ts}'
graphite_frame(name, value, ts) ==
    <<"Strom", ".">> \o name \o <<" ", value, " ", ts>>

\* str(ts) of the n-th capture
TsStr == <<"1.0", "2.0", "3.0", "4.0", "5.0", "6.0">>

\* which capture an item belongs to: the position of its last token
\* among the timestamps (0 when it is none of them)
ItemNo(item) ==
    LET hits == {n \in DOMAIN TsStr : item[Len(item)] = TsStr[n]}
    IN IF hits = {} THEN 0 ELSE CHOOSE n \in hits : TRUE

\* --------------------------------------------------------------- numbers
\* A Python float is carried as a whole number of tenths, which is all that
\* str(round(x, 1)) writes; mantissas are non-negative.
RECURSIVE Pow10(_)
Pow10(n) == IF n <= 0 THEN 1 ELSE 10 * Pow10(n - 1)

DigitChars == {"0", "1", "2", "3", "4", "5", "6", "7", "8", "9"}

IsDigits(s) == \A i \in 1..Len(s) : SubSeq(s, i, i) \in DigitChars

DigitVal(c) ==
    CASE c = "0" -> 0 [] c = "1" -> 1 [] c = "2" -> 2 [] c = "3" -> 3
      [] c = "4" -> 4 [] c = "5" -> 5 [] c = "6" -> 6 [] c = "7" -> 7
      [] c = "8" -> 8 [] c = "9" -> 9

\* int(s) of a string of digits
IntVal(s) ==
    LET RECURSIVE Prefix(_)
        Prefix(i) == IF i = 0 THEN 0
                     ELSE 10 * Prefix(i - 1) + DigitVal(SubSeq(s, i, i))
    IN Prefix(Len(s))

\* the characters of a str given as a sequence of tokens
RECURSIVE Join(_)
Join(toks) ==
    IF Len(toks) = 1 THEN toks[1]
    ELSE IF Len(toks) = 0 THEN ""
    ELSE toks[1] \o Join(Tail(toks))

\* float(text): the number in tenths (digits after the first decimal are
\* cut); ok = FALSE when float() raises ValueError
FloatParse(text) ==
    LET Parts(ip, fp) ==
            IF IsDigits(ip) /\ IsDigits(fp) /\ Len(ip) + Len(fp) > 0
            THEN [ok |-> TRUE,
                  tenths |-> 10 * IntVal(ip)
                             + IF Len(fp) = 0 THEN 0
                               ELSE DigitVal(SubSeq(fp, 1, 1))]
            ELSE [ok |-> FALSE]
        At(t, ds) ==
            IF Cardinality(ds) > 1 THEN [ok |-> FALSE]
            ELSE CHOOSE r \in
                    {Parts(ip, fp) :
                        ip \in {SubSeq(t, 1, d - 1) :
                                   d \in IF ds = {} THEN {Len(t) + 1} ELSE ds},
                        fp \in {SubSeq(t, d + 1, Len(t)) :
                                   d \in IF ds = {} THEN {Len(t) + 1} ELSE ds}}
                    : TRUE
        Dots(t) ==
            CHOOSE r \in
                {At(t, ds) :
                    ds \in {{i \in 1..Len(t) : SubSeq(t, i, i) = "."}}} : TRUE
    IN CHOOSE r \in {Dots(t) : t \in {text}} : TRUE

\* the value and timestamp strings of the queue-only specifications, and
\* what float() makes of them, computed once
KnownTexts == Values \cup {TsStr[n] : n \in DOMAIN TsStr}

FloatTable == [t \in KnownTexts |-> FloatParse(t)]

float(text) ==
    IF text \in KnownTexts THEN FloatTable[text] ELSE FloatParse(text)

\* str(x) of a float x
FloatStr(t) == ToString(t \div 10) \o "." \o ToString(t % 10)

\* lines 186-196: the Point the worker builds from the decoded item;
\* ok = FALSE when one of the two tuple unpackings or one of the two
\* float() calls raises.
\* (f, m and the floats are bound through singleton sets so that each is
\* evaluated once.)
BuildPoint(item) ==
    LET Built(f, m, v, t) ==
            IF ~v.ok \/ ~t.ok THEN [ok |-> FALSE]
            ELSE [ok |-> TRUE, measurement |-> m[1], tag |-> m[2],
                  field |-> m[3], value |-> v.tenths, time |-> f[3]]
        Point(f, m) ==
            IF Len(m) # 3 THEN [ok |-> FALSE]
            ELSE CHOOSE p \in {Built(f, m, v, t) :
                                  v \in {float(Join(f[2]))},
                                  t \in {float(Join(f[3]))}} : TRUE
        Fields(f) ==
            IF Len(f) # 3 THEN [ok |-> FALSE]
            ELSE CHOOSE p \in {Point(f, m) : m \in {SplitOn(f[1], ".")}} : TRUE
    IN CHOOSE p \in {Fields(f) : f \in {SplitWs(item)}} : TRUE

\* the items the queue-only specifications push
AllItems ==
    {graphite_frame(n, v, TsStr[t]) :
        n \in MetricNames, v \in Values, t \in 1..MaxItems}

\* the Points of those items, built once
PointTable == [x \in AllItems |-> BuildPoint(x)]

MakePoint(item) ==
    IF item \in AllItems THEN PointTable[item] ELSE BuildPoint(item)

\* sendinflux(): "True" / "False"; "raise" would end the thread
sendinflux_nocatch(outcome) == IF outcome = "ok" THEN "True" ELSE "raise"

sendinflux_false(outcome) == "False"

sendinflux(outcome) == IF outcome = "ok" THEN "True" ELSE "False"

Bump(f, n) == [f EXCEPT ![n] = IF @ < MaxFail THEN @ + 1 ELSE @]

TotalFailed ==
    LET RECURSIVE Sum(_)
        Sum(n) == IF n = 0 THEN 0 ELSE failed[n] + Sum(n - 1)
    IN Sum(Len(failed))

\* the item the worker owns: popped and neither written nor pushed back
InFlight == IF pc \in {"unpack", "write", "rpush"} THEN stromwert ELSE None

HeldCount(x) == Occ(queue, Encode(x)) + (IF InFlight = x THEN 1 ELSE 0)

\* ------------------------------------------------- main: the producer push
\* main, line 239: redis_con.lpush('stromwertinfluxdb', graphite_frame)
MainLpush ==
    /\ pushed < MaxItems
    /\ \E name \in MetricNames, value \in Values :
          queue' = lpush(queue, graphite_frame(name, value, TsStr[pushed + 1]))
    /\ pushed' = pushed + 1
    /\ lastop' = "push"
    /\ prevop' = lastop
    /\ UNCHANGED <<pc, stromwert, point, written, failed, requeued>>
    /\ UNCHANGED rvars
    /\ UNCHANGED mvars
    /\ UNCHANGED gvars

\* ------------------------------------------------- SendInflux.run (thread)
\* lines 181-185: rpop, the emptiness test and decode()
Rpop ==
    /\ pc = "rpop"
    /\ LET r == rpop(queue)
       IN /\ queue' = r.rest
          /\ IF r.item = Nil
             THEN /\ stromwert' = None
                  /\ pc' = "sleep1"
                  /\ UNCHANGED <<lastop, prevop>>
             ELSE /\ stromwert' = Decode(r.item)
                  /\ pc' = "unpack"
                  /\ lastop' = "pop"
                  /\ prevop' = lastop
    /\ UNCHANGED <<point, written, failed, requeued, pushed>>
    /\ UNCHANGED rvars
    /\ UNCHANGED mvars
    /\ UNCHANGED gvars

\* line 183: time.sleep(1)
Sleep1 ==
    /\ pc = "sleep1"
    /\ pc' = "rpop"
    /\ UNCHANGED <<queue, stromwert, point, written, failed, requeued, pushed,
                   lastop, prevop>>
    /\ UNCHANGED rvars
    /\ UNCHANGED mvars
    /\ UNCHANGED gvars

\* lines 186-196: the two splits and the Point; an exception here is not
\* caught and ends the thread
Unpack ==
    /\ pc = "unpack"
    /\ LET p == MakePoint(stromwert)
       IN IF p.ok
          THEN /\ point' = p
               /\ pc' = "write"
          ELSE /\ point' = point
               /\ pc' = "dead"
    /\ UNCHANGED <<queue, stromwert, written, failed, requeued, pushed,
                   lastop, prevop>>
    /\ UNCHANGED rvars
    /\ UNCHANGED mvars
    /\ UNCHANGED gvars

\* lines 197, 201-208: sendinflux(point); the write API accepts the point
\* or raises.  bounded: the number of raising writes is capped by MaxFail.
Write(bounded) ==
    /\ pc = "write"
    /\ \E outcome \in {"ok", "error"} :
          /\ (outcome = "error" /\ bounded) => TotalFailed < MaxFail
          /\ written' = IF outcome = "ok" THEN Append(written, point)
                        ELSE written
          /\ failed' = IF outcome = "error"
                       THEN Bump(failed, ItemNo(stromwert))
                       ELSE failed
          /\ pc' = CASE sendinflux(outcome) = "True" -> "rpop"
                     [] sendinflux(outcome) = "False" -> "rpush"
                     [] OTHER -> "dead"
    /\ UNCHANGED <<queue, stromwert, point, requeued, pushed, lastop, prevop>>
    /\ UNCHANGED rvars
    /\ UNCHANGED mvars
    /\ UNCHANGED gvars

\* line 198: self.redis_con.rpush('stromwertinfluxdb', stromwert)
Rpush ==
    /\ pc = "rpush"
    /\ queue' = rpush(queue, stromwert)
    /\ requeued' = Bump(requeued, ItemNo(stromwert))
    /\ pc' = "sleep2"
    /\ lastop' = "requeue"
    /\ prevop' = lastop
    /\ UNCHANGED <<stromwert, point, written, failed, pushed>>
    /\ UNCHANGED rvars
    /\ UNCHANGED mvars
    /\ UNCHANGED gvars

\* line 199: time.sleep(2)
Sleep2 ==
    /\ pc = "sleep2"
    /\ pc' = "rpop"
    /\ UNCHANGED <<queue, stromwert, point, written, failed, requeued, pushed,
                   lastop, prevop>>
    /\ UNCHANGED rvars
    /\ UNCHANGED mvars
    /\ UNCHANGED gvars

Worker(bounded) ==
    Rpop \/ Sleep1 \/ Unpack \/ Write(bounded) \/ Rpush \/ Sleep2

\* SendInflux.__init__ and the redis list before the first push
QInit ==
    /\ queue = <<>>
    /\ pc = "rpop"
    /\ stromwert = None
    /\ point = [ok |-> FALSE]
    /\ written = <<>>
    /\ failed = [n \in 1..MaxItems |-> 0]
    /\ requeued = [n \in 1..MaxItems |-> 0]
    /\ pushed = 0
    /\ lastop = "none"
    /\ prevop = "none"

\* the reader part at rest (no serial input)
RIdle ==
    /\ input = <<>>
    /\ pos = 0
    /\ spanAt = 1
    /\ span = <<>>
    /\ rpc = "call"
    /\ max_read = 5
    /\ start_found = FALSE
    /\ d_start = <<>>
    /\ d_frame = <<>>
    /\ d_end = <<>>
    /\ sml_frame = NoneB
    /\ handed = NoneB
    /\ error = "None"
    /\ callPos = 0
    /\ searchEnd = 0
    /\ cutInSpan = FALSE

\* main() inside its while loop, no frame decoded yet
MIdle ==
    /\ mpc = "loop"
    /\ printed = <<>>
    /\ frames = <<>>
    /\ idx = 0

\* lines 224-225 are comments: no SendGraphite thread, nothing in 'stromwert'
GIdle ==
    /\ gqueue = <<>>
    /\ gpc = "new"
    /\ gstromwert = None
    /\ gsent = <<>>
    /\ gfailed = 0

Init == QInit /\ RIdle /\ MIdle /\ GIdle

Next == MainLpush \/ Rpop \/ Sleep1 \/ Unpack \/ Write(TRUE) \/ Rpush \/ Sleep2

Spec == Init /\ [][Next]_vars

\* the same program, with no cap on the number of failing writes and a
\* worker thread that keeps being scheduled
NextLive ==
    MainLpush \/ Rpop \/ Sleep1 \/ Unpack \/ Write(FALSE) \/ Rpush \/ Sleep2

LiveSpec == Init /\ [][NextLive]_vars /\ WF_vars(Worker(FALSE))

\* --------------------------------------------------------------- delivery
\* number of accepted writes that carry the timestamp of capture n
Delivered(n) ==
    Cardinality({i \in DOMAIN written : written[i].time = <<TsStr[n]>>})

Queued(n) == \E i \in DOMAIN queue : ItemNo(Decode(queue[i])) = n

Holding(n) == InFlight # None /\ ItemNo(InFlight) = n

\* the worker is inside the write call for the item of capture n
Attempting(n) == pc = "write" /\ ItemNo(stromwert) = n

\* C1: no item is lost.  In every step the multiset "items in the queue
\* plus the item in flight" either stays as it is, or grows by the one item
\* the producer pushes, or loses exactly the in-flight item in a step in
\* which the sink accepts the write of that item; a failed write and the
\* requeue that follows leave it unchanged.
C1_NoItemLost ==
    [][ \/ \A x \in AllItems : HeldCount(x)' = HeldCount(x)
        \/ /\ pushed' = pushed + 1
           /\ written' = written
           /\ \E x \in AllItems :
                 /\ HeldCount(x)' = HeldCount(x) + 1
                 /\ \A y \in AllItems \ {x} : HeldCount(y)' = HeldCount(y)
        \/ /\ pushed' = pushed
           /\ \E x \in AllItems :
                 /\ x = InFlight
                 /\ written' = Append(written, MakePoint(x))
                 /\ HeldCount(x)' = HeldCount(x) - 1
                 /\ \A y \in AllItems \ {x} : HeldCount(y)' = HeldCount(y)
      ]_vars

\* an item survived a failed write and another one has been delivered
C1_Witness ==
    /\ written # <<>>
    /\ queue # <<>>
    /\ \E n \in 1..MaxItems : requeued[n] > 0 /\ Queued(n)

\* C2 as stated: the requeued item goes to the tail, behind every item the
\* queue holds at that moment.
C2_RequeueAtTail ==
    [][(pc = "rpush" /\ pc' = "sleep2")
          => queue' = <<Encode(stromwert)>> \o queue]_vars

\* C2 (amended): requeue puts the item back at the pop end of the queue:
\* whatever the queue holds when a failed item is requeued, the next pop
\* returns the requeued item, before any of those other items.
C2_RequeueAtPopEnd ==
    [][(pc = "rpush" /\ pc' = "sleep2")
          => /\ queue' = queue \o <<Encode(stromwert)>>
             /\ rpop(queue').item = Encode(stromwert)
             /\ rpop(queue').rest = queue]_vars

\* a failed item has been requeued while other items were waiting
C2_Witness ==
    /\ pc = "sleep2"
    /\ Len(queue) >= 2
    /\ queue[Len(queue)] = Encode(stromwert)

\* C3: when a requeue is immediately followed by a pop (no other operation
\* on the list in between), the pop returns the requeued item, unchanged,
\* and leaves the rest of the queue as it was.
C3_RequeueThenPop ==
    [][(lastop = "requeue" /\ lastop' = "pop")
          => /\ stromwert' = stromwert
             /\ queue' = Front(queue)]_vars

\* a pop directly after a requeue, with other items in the queue
C3_Witness ==
    /\ lastop = "pop"
    /\ prevop = "requeue"
    /\ pc = "unpack"
    /\ queue # <<>>

\* C8 as stated: every pushed item is eventually delivered or attempted
\* again and again: as long as it is pushed and not delivered, a write of it
\* (or its delivery) lies ahead.
C8_DeliveredOrRetried ==
    \A n \in 1..MaxItems :
        (pushed >= n /\ Delivered(n) = 0) ~> (Delivered(n) > 0 \/ Attempting(n))

\* C8 (amended): every pushed item is eventually delivered, or else the
\* worker attempts, again and again, that item or an item pushed before it
\* (an item waiting behind a persistently failing one is not attempted): as
\* long as an item is pushed and not delivered, its delivery or a write of
\* it or of an earlier item lies ahead.
C8_DeliveredOrHeadRetried ==
    \A n \in 1..MaxItems :
        (pushed >= n /\ Delivered(n) = 0)
            ~> (Delivered(n) > 0 \/ \E m \in 1..n : Attempting(m))

\* an item waits in the queue behind an item whose write has failed
C8_Witness ==
    /\ pc = "write"
    /\ \E n \in 1..MaxItems :
          /\ Attempting(n)
          /\ failed[n] > 0
          /\ \E m \in 1..MaxItems : m > n /\ Queued(m)

\* C9: an item whose write fails k times and then succeeds is delivered
\* exactly once: the sink accepted one write for it, the worker requeued it
\* exactly k times, and it is neither in the queue nor in flight any more.
C9_ExactlyOnce ==
    \A n \in 1..MaxItems :
        /\ Delivered(n) <= 1
        /\ Delivered(n) = 1 =>
              /\ requeued[n] = failed[n]
              /\ ~Queued(n)
              /\ ~Holding(n)

\* one failure, one requeue, then the successful write
C9_Witness ==
    \E n \in 1..MaxItems :
        /\ Delivered(n) = 1
        /\ failed[n] = 1
        /\ requeued[n] = 1

\* C10: a failing sink write never ends the worker.  After a write that
\* raised the worker requeues the item, then sleeps (BACKOFF), then pops
\* again; while it sleeps the item is back in the queue, and the thread
\* never terminates.
C10_FailureNeverTerminates ==
    /\ [](pc # "dead")
    /\ [](pc = "sleep2" => Occ(queue, Encode(stromwert)) >= 1)
    /\ [][ /\ (pc = "write" /\ failed' # failed) => pc' = "rpush"
           /\ (pc = "rpush" /\ pc' # pc) =>
                 /\ pc' = "sleep2"
                 /\ Occ(queue', Encode(stromwert))
                       = Occ(queue, Encode(stromwert)) + 1
           /\ (pc = "sleep2" /\ pc' # pc) => pc' = "rpop"
         ]_vars

\* the worker sleeps after a failed write
C10_Witness ==
    /\ pc = "sleep2"
    /\ requeued[ItemNo(stromwert)] = 1
    /\ failed[ItemNo(stromwert)] = 1

\* C13: on the happy path (no write has failed) the sink receives the items
\* in exactly the order in which main pushed them, whatever the interleaving
\* of pushes and pops.
C13_HappyPathFifo ==
    TotalFailed = 0 =>
        \A i \in DOMAIN written : written[i].time = <<TsStr[i]>>

\* items went through without a failure, pushed while the worker ran
C13_Witness ==
    /\ TotalFailed = 0
    /\ Len(written) >= 2
    /\ queue # <<>>

\* C19: delivery order is strict even under retries: the accepted writes
\* occur in push order, no item is attempted before every item pushed
\* earlier has been delivered, and after a failed write the next item the
\* worker pops is that same item.
C19_StrictOrderUnderRetries ==
    /\ [](\A i \in DOMAIN written : written[i].time = <<TsStr[i]>>)
    /\ [](\A n \in 1..MaxItems :
             Attempting(n) => \A m \in 1..(n - 1) : Delivered(m) = 1)
    /\ [][(pc = "rpop" /\ pc' = "unpack" /\ stromwert # None
              /\ Delivered(ItemNo(stromwert)) = 0)
             => stromwert' = stromwert]_vars

\* two items delivered in order although writes of both had failed
C19_Witness ==
    /\ Len(written) >= 2
    /\ failed[1] >= 1
    /\ failed[2] >= 1
    /\ requeued[1] >= 1


\* ------------------------------------------------------------ serial line
\* lines 76-80
escapeSequence == <<27, 27, 27, 27>>

startMessage == <<1, 1, 1, 1>>

startSyn == escapeSequence \o startMessage

endMessageB1 == <<26>>

endMsg == escapeSequence \o endMessageB1

\* the bytes not yet read
Rest == Drop(input, pos)

\* serial.Serial.read_until(expected): the bytes up to and including the
\* first occurrence of expected, or, when the timeout strikes first, any
\* shorter prefix of what the line delivers (possibly nothing)
read_until(s, expected) ==
    LET k == Find(s, expected)
        last == IF k = 0 THEN Len(s) ELSE k + Len(expected) - 1
    IN {SubSeq(s, 1, n) : n \in 0..last}

\* serial.Serial.read(size): size bytes, fewer when the timeout strikes
read(s, size) == {SubSeq(s, 1, n) : n \in 0..Min(size, Len(s))}

\* a transport message: start sequence, body, end sequence, filler + CRC
Trailer == <<0, 171, 205>>

Message(body) == startSyn \o body \o endMsg \o Trailer

Noise(n) == [i \in 1..n |-> 0]

\* what the line may deliver before the message: nothing, noise, the tail
\* of the previous message, a broken start sequence
Garbages ==
    {Noise(0), Noise(MaxGarbage), endMsg \o Trailer, escapeSequence \o <<1>>}

RECURSIVE SeqsUpTo(_, _)
SeqsUpTo(S, n) ==
    IF n = 0 THEN {<<>>}
    ELSE SeqsUpTo(S, n - 1)
            \cup {Append(b, x) : b \in {c \in SeqsUpTo(S, n - 1) : Len(c) = n - 1},
                                 x \in S}

\* message bodies: data bytes (0x76) and escape bytes
Bodies == SeqsUpTo({118, 27}, MaxBody)

\* the first byte of whatever follows the message
Follow == <<27>>

\* a frame as section 3 of the data model wants it
WellFormed(f) ==
    /\ Len(f) >= Len(startSyn) + Len(endMsg) + 3
    /\ StartsWith(f, startSyn)
    /\ SubSeq(f, Len(f) - 7, Len(f) - 3) = endMsg

\* position p lies strictly inside the message
InSpan(p) == spanAt - 1 < p /\ p < spanAt - 1 + Len(span)

\* ---------------------------------------------------------------- read_sml
\* lines 88-99: what one start-search read does to d_start / start_found
StartStep_noslice(d) ==
    IF d = startSyn THEN [d_start |-> d, start_found |-> TRUE]
    ELSE IF Len(d) > 8
         THEN IF Contains(d, startSyn)
              THEN [d_start |-> d, start_found |-> TRUE]
              ELSE [d_start |-> d, start_found |-> FALSE]
         ELSE [d_start |-> d, start_found |-> FALSE]

StartStep_noresync(d) ==
    IF d = startSyn THEN [d_start |-> d, start_found |-> TRUE]
    ELSE [d_start |-> d, start_found |-> FALSE]

StartStep(d) ==
    IF d = startSyn THEN [d_start |-> d, start_found |-> TRUE]
    ELSE IF Len(d) > 8
         THEN IF Contains(d, startSyn)
              THEN [d_start |-> Drop(d, Find(d, startSyn) - 1),
                    start_found |-> TRUE]
              ELSE [d_start |-> d, start_found |-> FALSE]
         ELSE [d_start |-> d, start_found |-> FALSE]

\* main line 233 and read_sml lines 73-84: the call and its locals
ReadSmlCall ==
    /\ rpc = "call"
    /\ sml_frame' = NoneB
    /\ max_read' = 5
    /\ start_found' = FALSE
    /\ d_start' = <<>>
    /\ d_frame' = <<>>
    /\ d_end' = <<>>
    /\ handed' = NoneB
    /\ callPos' = pos
    /\ searchEnd' = pos
    /\ cutInSpan' = FALSE
    /\ rpc' = "loop"
    /\ UNCHANGED <<input, pos, spanAt, span, error>>
    /\ UNCHANGED qvars
    /\ UNCHANGED mvars
    /\ UNCHANGED gvars

\* lines 85-100: one iteration of the start search
StartSearch ==
    /\ rpc = "loop"
    /\ ~start_found
    /\ max_read > 0
    /\ \E d \in read_until(Rest, startSyn) :
          /\ pos' = pos + Len(d)
          /\ d_start' = StartStep(d).d_start
          /\ start_found' = StartStep(d).start_found
          /\ cutInSpan' = (cutInSpan \/
                             (~EndsWith(d, startSyn) /\ InSpan(pos + Len(d))))
    /\ max_read' = max_read - 1
    /\ UNCHANGED <<input, spanAt, span, rpc, d_frame, d_end, sml_frame, handed,
                   error, callPos, searchEnd>>
    /\ UNCHANGED qvars
    /\ UNCHANGED mvars
    /\ UNCHANGED gvars

\* lines 85, 101: the loop ends, with or without a start
SearchEnd ==
    /\ rpc = "loop"
    /\ start_found \/ max_read = 0
    /\ max_read' = 5
    /\ searchEnd' = pos
    /\ rpc' = "frame"
    /\ UNCHANGED <<input, pos, spanAt, span, start_found, d_start, d_frame,
                   d_end, sml_frame, handed, error, callPos, cutInSpan>>
    /\ UNCHANGED qvars
    /\ UNCHANGED mvars
    /\ UNCHANGED gvars

\* line 104: d_frame = ser.read_until(endMsg)
ReadFrame ==
    /\ rpc = "frame"
    /\ \E d \in read_until(Rest, endMsg) :
          /\ pos' = pos + Len(d)
          /\ d_frame' = d
          /\ cutInSpan' = (cutInSpan \/
                             (~EndsWith(d, endMsg) /\ InSpan(pos + Len(d))))
    /\ rpc' = "end"
    /\ UNCHANGED <<input, spanAt, span, max_read, start_found, d_start, d_end,
                   sml_frame, handed, error, callPos, searchEnd>>
    /\ UNCHANGED qvars
    /\ UNCHANGED mvars
    /\ UNCHANGED gvars

\* lines 107-109: d_end = ser.read(3); return d_start + d_frame + d_end
ReadEnd ==
    /\ rpc = "end"
    /\ \E d \in read(Rest, 3) :
          /\ pos' = pos + Len(d)
          /\ d_end' = d
          /\ sml_frame' = d_start \o d_frame \o d
          /\ cutInSpan' = (cutInSpan \/ (Len(d) < 3 /\ InSpan(pos + Len(d))))
    /\ rpc' = "ret"
    /\ UNCHANGED <<input, spanAt, span, max_read, start_found, d_start,
                   d_frame, handed, error, callPos, searchEnd>>
    /\ UNCHANGED qvars
    /\ UNCHANGED mvars
    /\ UNCHANGED gvars

\* main lines 233-241: a truthy result goes to dosml, anything else sets
\* error; then the loop calls read_sml again
MainCheck ==
    /\ rpc = "ret"
    /\ IF sml_frame # NoneB /\ sml_frame # <<>>
       THEN handed' = sml_frame /\ error' = error
       ELSE handed' = handed /\ error' = "ERR_MESG"
    /\ rpc' = "call"
    /\ UNCHANGED <<input, pos, spanAt, span, max_read, start_found, d_start,
                   d_frame, d_end, sml_frame, callPos, searchEnd, cutInSpan>>
    /\ UNCHANGED qvars
    /\ UNCHANGED mvars
    /\ UNCHANGED gvars

\* the serial line delivers garbage, one transport message and the first
\* byte of what follows
RInit ==
    /\ \E g \in Garbages, b \in Bodies :
          /\ input = g \o Message(b) \o Follow
          /\ spanAt = Len(g) + 1
          /\ span = Message(b)
    /\ pos = 0
    /\ rpc = "call"
    /\ max_read = 5
    /\ start_found = FALSE
    /\ d_start = <<>>
    /\ d_frame = <<>>
    /\ d_end = <<>>
    /\ sml_frame = NoneB
    /\ handed = NoneB
    /\ error = "None"
    /\ callPos = 0
    /\ searchEnd = 0
    /\ cutInSpan = FALSE

InitReader == QInit /\ RInit /\ MIdle /\ GIdle

NextReader ==
    ReadSmlCall \/ StartSearch \/ SearchEnd \/ ReadFrame \/ ReadEnd \/ MainCheck

SpecReader == InitReader /\ [][NextReader]_vars

C5_NoStartReturnsNone ==
    ~start_found =>
        /\ rpc # "end"
        /\ rpc = "ret" => (sml_frame = NoneB /\ pos = searchEnd)

\* C6: every frame read_sml returns, and every frame main hands to the
\* decoder, starts with START and ends with END_PREFIX plus 3 trailer bytes.
C6_FramesWellFormed ==
    /\ (rpc = "ret" /\ sml_frame # NoneB /\ sml_frame # <<>>)
          => WellFormed(sml_frame)
    /\ handed # NoneB => WellFormed(handed)

\* C7: after START was found, a read-until END_PREFIX that times out or a
\* trailer read of fewer than 3 bytes makes the call return an error, not a
\* frame.
C7_ShortReadIsError ==
    (rpc = "ret" /\ start_found
        /\ (~EndsWith(d_frame, endMsg) \/ Len(d_end) < 3))
        => sml_frame = NoneB

\* C18: the start search is bounded.  A call issues a read-until-START only
\* while no start is found and attempts are left, each such read uses up
\* one of the 5 attempts, and the search stops exactly at the first read
\* that equals START or that is longer than 8 bytes and contains START; the
\* call then goes on to the END_PREFIX read, the trailer read and returns.
C18_StartSearchBounded ==
    /\ [](max_read \in 0..5)
    /\ [][ /\ (rpc = "loop" /\ rpc' = "loop") =>
                 /\ ~start_found
                 /\ max_read > 0
                 /\ max_read' = max_read - 1
                 /\ start_found' =
                       (\/ SubSeq(input, pos + 1, pos') = startSyn
                        \/ /\ pos' - pos > 8
                           /\ Contains(SubSeq(input, pos + 1, pos'), startSyn))
           /\ (rpc = "loop" /\ rpc' # "loop") =>
                 /\ start_found \/ max_read = 0
                 /\ rpc' = "frame"
                 /\ pos' = pos
           /\ (rpc = "frame" /\ rpc' # rpc) => rpc' = "end"
           /\ (rpc = "end" /\ rpc' # rpc) => rpc' = "ret"
         ]_vars

\* the search stopped after a resynchronising read, with attempts to spare
C18_Witness ==
    /\ rpc = "frame"
    /\ start_found
    /\ max_read = 5
    /\ searchEnd - callPos > 8
    /\ callPos > 0

\* ------------------------------------------------------------ main + dosml
MaxFrames == 2

\* smllib.const.OBIS_NAMES: the codes the decoder library has a name for;
\* the three configured ones and others (device id, tariff 1 register)
OBIS_NAMES == DOMAIN OBIS_MAP_GRAPHITE \cup {"0100000009ff", "0100010801ff"}

\* the fields of a list entry: an int, a str or None
IntV(n) == [kind |-> "int", n |-> n]

StrV == [kind |-> "str", n |-> 0]

NoneV == [kind |-> "None", n |-> 0]

Entry(obis, value, scaler) == [obis |-> obis, value |-> value, scaler |-> scaler]

\* what the decoder makes of the bytes read_sml returned
Frame(kind, entries) == [kind |-> kind, entries |-> entries]

Scenario ==
    Frame("ok", <<Entry("0100010800ff", IntV(12345), IntV(-1)),
                  Entry("0100020800ff", IntV(200), IntV(0))>>)

FrameSet ==
    { Frame("empty", <<>>),
      Frame("incomplete", <<>>),
      Frame("parse_raises", <<>>),
      Frame("no_val_list", <<>>),
      Scenario,
      Frame("ok", <<Entry("81810000ffff", StrV, NoneV),
                    Entry("0100100700ff", IntV(35), IntV(-2))>>),
      Frame("ok", <<Entry("0100010801ff", IntV(5), IntV(-1)),
                    Entry("0100020800ff", IntV(20), IntV(1))>>),
      Frame("ok", <<Entry("0100000009ff", StrV, NoneV),
                    Entry("0100010800ff", IntV(7), IntV(-1))>>) }

\* lines 113-122: "end" when get_frame returns nothing (the generator
\* returns), "raise" when parse_frame raises or the parsed message has no
\* val_list, "iterate" when the for loop is entered
DosmlStart_noreturn(f) ==
    CASE f.kind \in {"incomplete", "parse_raises", "no_val_list"} -> "raise"
      [] OTHER -> "iterate"

DosmlStart(f) ==
    CASE f.kind = "incomplete" -> "end"
      [] f.kind \in {"parse_raises", "no_val_list"} -> "raise"
      [] OTHER -> "iterate"

\* line 127: str(round(value * (10 ** scaler), 1)).  ok = FALSE when the
\* expression raises TypeError; strs are the strings it can give: an int
\* stays an int for scaler >= 0, a float is rounded to a nearest tenth (a
\* tie falls to either side, depending on the binary representation)
dosml_value_noscale(e) ==
    IF e.scaler.kind # "int" \/ e.value.kind # "int"
    THEN [ok |-> FALSE, strs |-> {}]
    ELSE [ok |-> TRUE, strs |-> {ToString(e.value.n)}]

dosml_value(e) ==
    IF e.scaler.kind # "int" \/ e.value.kind # "int"
    THEN [ok |-> FALSE, strs |-> {}]
    ELSE IF e.scaler.n >= 0
    THEN [ok |-> TRUE, strs |-> {ToString(e.value.n * Pow10(e.scaler.n))}]
    ELSE LET d == Pow10(0 - e.scaler.n)
             q == (10 * e.value.n) \div d
             r == (10 * e.value.n) % d
         IN [ok |-> TRUE,
             strs |-> {FloatStr(t) :
                          t \in IF 2 * r < d THEN {q}
                                ELSE IF 2 * r > d THEN {q + 1}
                                ELSE {q, q + 1}}]

\* line 24 binds the name datetime to the class datetime.datetime; these
\* are the attributes of that class the program touches
DatetimeAttrs == {"now", "fromtimestamp", "timestamp", "strftime"}

\* line 245: datetime.datetime.now()
NowExpr == IF "datetime" \in DatetimeAttrs THEN "ok" ELSE "AttributeError"

\* the frame dosml is working on and its capture time (line 124)
CurFrame == frames[Len(frames)]

CurTs == TsStr[Len(frames)]

\* lines 226-227: SendInflux(...).start()
MainStart ==
    /\ mpc = "start"
    /\ pc = "new"
    /\ pc' = "rpop"
    /\ mpc' = "open"
    /\ UNCHANGED <<queue, stromwert, point, written, failed, requeued, pushed,
                   lastop, prevop>>
    /\ UNCHANGED <<readvars, error, printed, frames, idx>>
    /\ UNCHANGED gvars

\* lines 229-230, 242-243 with open_serial, lines 53-59
OpenSerial ==
    /\ mpc = "open"
    /\ \E opened \in BOOLEAN :
          IF opened
          THEN /\ mpc' = "loop"
               /\ UNCHANGED <<error, printed>>
          ELSE /\ printed' = Append(printed, "Exception: e")
               /\ error' = "ERR_DEVICE"
               /\ mpc' = "report"
    /\ UNCHANGED <<qvars, readvars, frames, idx>>
    /\ UNCHANGED gvars

\* lines 245-248: the report after the if/else
Report ==
    /\ mpc = "report"
    /\ IF NowExpr = "ok"
       THEN /\ printed' = IF error # "None"
                          THEN Append(printed, "now " \o error)
                          ELSE printed
            /\ mpc' = "exited"
       ELSE /\ printed' = Append(printed, "Traceback: " \o NowExpr)
            /\ mpc' = "crashed"
    /\ UNCHANGED <<qvars, readvars, error, frames, idx>>
    /\ UNCHANGED gvars

\* lines 233-236, 240-241 and dosml up to its for loop, lines 113-124
MainRead ==
    /\ mpc = "loop"
    /\ Len(frames) < MaxFrames
    /\ \E f \in FrameSet :
          /\ frames' = Append(frames, f)
          /\ IF f.kind = "empty"
             THEN /\ error' = "ERR_MESG"
                  /\ UNCHANGED <<mpc, printed, idx>>
             ELSE /\ error' = error
                  /\ CASE DosmlStart(f) = "end" ->
                            /\ printed' = Append(printed, "Bytes missing")
                            /\ UNCHANGED <<mpc, idx>>
                       [] DosmlStart(f) = "raise" ->
                            /\ printed' = Append(printed, "Traceback: dosml")
                            /\ mpc' = "crashed"
                            /\ idx' = idx
                       [] OTHER ->
                            /\ mpc' = "dosml"
                            /\ idx' = 1
                            /\ printed' = printed
    /\ UNCHANGED <<qvars, readvars>>
    /\ UNCHANGED gvars

\* lines 125-134 for one list entry, and line 239 for the frame it yields
DosmlEntry ==
    /\ mpc = "dosml"
    /\ idx <= Len(CurFrame.entries)
    /\ LET e == CurFrame.entries[idx]
       IN IF e.obis \notin OBIS_NAMES
          THEN /\ idx' = idx + 1
               /\ UNCHANGED <<mpc, printed, queue, pushed, lastop, prevop>>
          ELSE IF ~dosml_value(e).ok
          THEN /\ mpc' = "crashed"
               /\ printed' = Append(printed, "Traceback: TypeError")
               /\ UNCHANGED <<idx, queue, pushed, lastop, prevop>>
          ELSE IF e.obis \notin DOMAIN OBIS_MAP_GRAPHITE
          THEN /\ idx' = idx + 1
               /\ UNCHANGED <<mpc, printed, queue, pushed, lastop, prevop>>
          ELSE /\ \E value \in dosml_value(e).strs :
                     queue' = lpush(queue,
                                 graphite_frame(OBIS_MAP_GRAPHITE[e.obis],
                                                value, CurTs))
               /\ pushed' = pushed + 1
               /\ lastop' = "push"
               /\ prevop' = lastop
               /\ idx' = idx + 1
               /\ UNCHANGED <<mpc, printed>>
    /\ UNCHANGED <<pc, stromwert, point, written, failed, requeued>>
    /\ UNCHANGED <<readvars, error, frames>>
    /\ UNCHANGED gvars

\* the for loop of line 236 ends with the generator
DosmlEnd ==
    /\ mpc = "dosml"
    /\ idx > Len(CurFrame.entries)
    /\ mpc' = "loop"
    /\ idx' = 0
    /\ UNCHANGED <<qvars, readvars, error, printed, frames>>
    /\ UNCHANGED gvars

\* main() entered, no thread started yet
InitMain ==
    /\ queue = <<>>
    /\ pc = "new"
    /\ stromwert = None
    /\ point = [ok |-> FALSE]
    /\ written = <<>>
    /\ failed = [n \in 1..MaxFrames |-> 0]
    /\ requeued = [n \in 1..MaxFrames |-> 0]
    /\ pushed = 0
    /\ lastop = "none"
    /\ prevop = "none"
    /\ RIdle
    /\ mpc = "start"
    /\ printed = <<>>
    /\ frames = <<>>
    /\ idx = 0
    /\ GIdle

NextMain ==
    \/ MainStart \/ OpenSerial \/ Report \/ MainRead \/ DosmlEntry \/ DosmlEnd
    \/ Rpop \/ Sleep1 \/ Unpack \/ Write(TRUE) \/ Rpush \/ Sleep2

SpecMain == InitMain /\ [][NextMain]_vars

\* ----------------------------------------------- properties of main + dosml
\* C15: when the decoder cannot assemble a message from the bytes of a
\* frame (get_frame returns nothing), the read step pushes nothing, prints
\* 'Bytes missing' and leaves main at the top of its loop, where the next
\* frame is read; no item of that frame is ever in the queue, with the
\* worker or at the sink.
C15_IncompleteFrameSkipped ==
    /\ [][(/\ Len(frames') = Len(frames) + 1
           /\ frames'[Len(frames')].kind = "incomplete")
            => /\ queue' = queue
               /\ pushed' = pushed
               /\ mpc = "loop"
               /\ mpc' = "loop"
               /\ printed' = Append(printed, "Bytes missing")
               /\ error' = error]_vars
    /\ [](\A n \in DOMAIN frames :
             frames[n].kind = "incomplete" =>
                 ~Queued(n) /\ ~Holding(n) /\ Delivered(n) = 0)
    /\ []((frames # <<>> /\ CurFrame.kind = "incomplete") => mpc = "loop")

C15_Witness ==
    /\ Len(frames) = 2
    /\ frames[1].kind = "incomplete"
    /\ frames[2] = Scenario
    /\ pushed = 2

\* C14: a decode error is recoverable: after a frame whose parse raises, or
\* whose parsed message has no value list, the producer is back at the top
\* of its loop (it has not terminated) and nothing of that frame was pushed.
C14_DecodeErrorRecoverable ==
    \A n \in DOMAIN frames :
        frames[n].kind \in {"parse_raises", "no_val_list"} =>
            /\ mpc # "crashed"
            /\ ~Queued(n) /\ ~Holding(n) /\ Delivered(n) = 0

\* C16: a record whose code is not in the configured map is skipped
\* whatever its fields hold: the producer never stops at such a record.
C16_UnconfiguredCodeSkipped ==
    (mpc = "dosml" \/ mpc = "crashed") /\ frames # <<>> /\ CurFrame.kind = "ok"
        /\ idx \in DOMAIN CurFrame.entries
        /\ CurFrame.entries[idx].obis \notin DOMAIN OBIS_MAP_GRAPHITE
      => mpc # "crashed"

\* C11: when opening the serial device has failed, main ends by printing
\* the timestamped error code ERR_DEVICE and the process terminates: once
\* main has left its report, the line is on the operator output and the
\* worker thread is not running.
C11_OpenFailureReported ==
    (error = "ERR_DEVICE" /\ mpc # "report") =>
        /\ mpc = "exited"
        /\ \E i \in DOMAIN printed : printed[i] = "now ERR_DEVICE"
        /\ pc \notin {"rpop", "sleep1", "unpack", "write", "rpush", "sleep2"}

\* C17: every point the sink accepted comes from a record of the frame with
\* its timestamp whose code is configured under the point's name, with an
\* int mantissa m and scale s, and its value (in tenths) is m * 10^s
\* rounded to one decimal: exact for s >= 0, a nearest tenth for s < 0.
\* Once the scenario frame has been processed and its items have left the
\* queue and the worker, the sink holds exactly two points of it,
\* Verbrauch.total = 1234.5 and Einspeisung.total = 200.0.
C17_ValueIsRounded ==
    /\ \A i \in DOMAIN written :
          \E n \in DOMAIN frames :
             /\ written[i].time = <<TsStr[n]>>
             /\ \E k \in DOMAIN frames[n].entries :
                   LET e == frames[n].entries[k]
                       t == written[i].value
                   IN /\ e.obis \in DOMAIN OBIS_MAP_GRAPHITE
                      /\ written[i].measurement = <<"Strom">>
                      /\ written[i].tag \o <<".">> \o written[i].field
                            = OBIS_MAP_GRAPHITE[e.obis]
                      /\ e.value.kind = "int"
                      /\ e.scaler.kind = "int"
                      /\ IF e.scaler.n >= 0
                         THEN t = 10 * e.value.n * Pow10(e.scaler.n)
                         ELSE /\ 2 * (t * Pow10(0 - e.scaler.n) - 10 * e.value.n)
                                    <= Pow10(0 - e.scaler.n)
                              /\ 2 * (10 * e.value.n - t * Pow10(0 - e.scaler.n))
                                    <= Pow10(0 - e.scaler.n)
    /\ \A n \in DOMAIN frames :
          (/\ frames[n] = Scenario
           /\ n < Len(frames) \/ mpc = "loop"
           /\ ~Queued(n)
           /\ ~Holding(n))
          => SelectSeq(written, LAMBDA p : p.time = <<TsStr[n]>>)
                = << [ok |-> TRUE, measurement |-> <<"Strom">>,
                      tag |-> <<"Verbrauch">>, field |-> <<"total">>,
                      value |-> 12345, time |-> <<TsStr[n]>>],
                     [ok |-> TRUE, measurement |-> <<"Strom">>,
                      tag |-> <<"Einspeisung">>, field |-> <<"total">>,
                      value |-> 2000, time |-> <<TsStr[n]>>] >>

C17_Witness ==
    /\ frames # <<>>
    /\ frames[1] = Scenario
    /\ Len(written) >= 2
    /\ written[1].value = 12345
    /\ written[2].value = 2000
    /\ failed[1] >= 1

\* C20: every item the producer has pushed has the wire form the worker
\* expects: three whitespace-separated fields, a metric name of three
\* dot-separated components, a value and a timestamp float() accepts.  So
\* every item in the queue or with the worker unpacks into a Point, and the
\* worker never dies between the pop and the write attempt.
C20_PushedItemsUnpack ==
    /\ \A i \in DOMAIN queue :
          /\ Len(SplitWs(Decode(queue[i]))) = 3
          /\ Len(SplitOn(SplitWs(Decode(queue[i]))[1], ".")) = 3
          /\ MakePoint(Decode(queue[i])).ok
    /\ InFlight # None => MakePoint(InFlight).ok
    /\ pc # "dead"
    /\ pc \in {"write", "rpush"} => point = MakePoint(stromwert)

C20_Witness ==
    /\ pc = "write"
    /\ point.ok
    /\ point.value = 2000
    /\ queue # <<>>
    /\ failed[1] >= 1

\* ------------------------------------------- two sinks: Influx and Graphite
\* The configuration the module docstring describes (lines 4-6), with the
\* lines 224-225 and 238 of main in force: a SendGraphite thread draining
\* the redis list 'stromwert' next to the SendInflux thread.
MaxSinkItems == 2

\* sendgraphite(): "True" / "False" (lines 162-168)
sendgraphite_false(outcome) == "False"

sendgraphite(outcome) == IF outcome = "ok" THEN "True" ELSE "False"

\* the meter delivers one register here: the name of every metric pushed
SinkNames == {OBIS_MAP_GRAPHITE["0100010800ff"]}

\* lines 236-239, one iteration of the for loop: the frame is pushed to the
\* list of each sink
MainLpushBoth ==
    /\ mpc = "loop"
    /\ pushed < MaxSinkItems
    /\ \E name \in SinkNames, value \in Values :
          /\ gqueue' = lpush(gqueue,
                          graphite_frame(name, value, TsStr[pushed + 1]))
          /\ queue' = lpush(queue,
                          graphite_frame(name, value, TsStr[pushed + 1]))
    /\ pushed' = pushed + 1
    /\ lastop' = "push"
    /\ prevop' = lastop
    /\ UNCHANGED <<pc, stromwert, point, written, failed, requeued>>
    /\ UNCHANGED <<gpc, gstromwert, gsent, gfailed>>
    /\ UNCHANGED rvars
    /\ UNCHANGED mvars

\* the key of the redis list the SendGraphite thread works on (lines 149,
\* 156)
GraphiteKey_shared == "stromwertinfluxdb"

GraphiteKey == "stromwert"

\* the redis list stored under a key
RedisList(key) == IF key = "stromwert" THEN gqueue ELSE queue

\* lines 149-153: rpop, the emptiness test and decode()
GRpop ==
    /\ gpc = "rpop"
    /\ LET r == rpop(RedisList(GraphiteKey))
       IN /\ gqueue' = IF GraphiteKey = "stromwert" THEN r.rest ELSE gqueue
          /\ queue' = IF GraphiteKey = "stromwert" THEN queue ELSE r.rest
          /\ IF r.item = Nil
             THEN /\ gstromwert' = None
                  /\ gpc' = "sleep1"
             ELSE /\ gstromwert' = Decode(r.item)
                  /\ gpc' = "send"
    /\ UNCHANGED <<gsent, gfailed>>
    /\ UNCHANGED <<pc, stromwert, point, written, failed, requeued, pushed,
                   lastop, prevop>>
    /\ UNCHANGED <<rvars, mvars>>

\* line 151: time.sleep(1.0)
GSleep1 ==
    /\ gpc = "sleep1"
    /\ gpc' = "rpop"
    /\ UNCHANGED <<gqueue, gstromwert, gsent, gfailed>>
    /\ UNCHANGED <<qvars, rvars, mvars>>

\* lines 155, 161-168: sendgraphite(stromwert).  The tuple unpacking of
\* line 162 is outside the try and ends the thread when it raises; a
\* float() that raises and a send that raises are caught.  The number of
\* raising sends is capped by MaxFail.
GSend ==
    /\ gpc = "send"
    /\ LET f == SplitWs(gstromwert)
       IN IF Len(f) # 3
          THEN /\ gpc' = "dead"
               /\ UNCHANGED <<gsent, gfailed>>
          ELSE IF ~float(Join(f[2])).ok \/ ~float(Join(f[3])).ok
          THEN /\ gpc' = "rpush"
               /\ UNCHANGED <<gsent, gfailed>>
          ELSE \E outcome \in {"ok", "error"} :
                  /\ outcome = "error" => gfailed < MaxFail
                  /\ gsent' = IF outcome = "ok"
                              THEN Append(gsent,
                                      [metric |-> f[1],
                                       value |-> float(Join(f[2])).tenths,
                                       timestamp |-> float(Join(f[3])).tenths])
                              ELSE gsent
                  /\ gfailed' = IF outcome = "error" THEN gfailed + 1
                                ELSE gfailed
                  /\ gpc' = IF sendgraphite(outcome) = "True" THEN "rpop"
                            ELSE "rpush"
    /\ UNCHANGED <<gqueue, gstromwert>>
    /\ UNCHANGED <<qvars, rvars, mvars>>

\* line 156: self.redis_con.rpush('stromwert', stromwert)
GRpush ==
    /\ gpc = "rpush"
    /\ gqueue' = IF GraphiteKey = "stromwert" THEN rpush(gqueue, gstromwert)
                 ELSE gqueue
    /\ queue' = IF GraphiteKey = "stromwert" THEN queue
                ELSE rpush(queue, gstromwert)
    /\ gpc' = "sleep2"
    /\ UNCHANGED <<gstromwert, gsent, gfailed>>
    /\ UNCHANGED <<pc, stromwert, point, written, failed, requeued, pushed,
                   lastop, prevop>>
    /\ UNCHANGED <<rvars, mvars>>

\* line 157: time.sleep(2)
GSleep2 ==
    /\ gpc = "sleep2"
    /\ gpc' = "rpop"
    /\ UNCHANGED <<gqueue, gstromwert, gsent, gfailed>>
    /\ UNCHANGED <<qvars, rvars, mvars>>

GraphiteWorker == GRpop \/ GSleep1 \/ GSend \/ GRpush \/ GSleep2

\* both threads started (lines 224-227), main inside its loop
InitSinks ==
    /\ QInit
    /\ RIdle
    /\ MIdle
    /\ gqueue = <<>>
    /\ gpc = "rpop"
    /\ gstromwert = None
    /\ gsent = <<>>
    /\ gfailed = 0

\* the Influx writes may fail without bound
NextSinks ==
    \/ MainLpushBoth
    \/ Rpop \/ Sleep1 \/ Unpack \/ Write(FALSE) \/ Rpush \/ Sleep2
    \/ GRpop \/ GSleep1 \/ GSend \/ GRpush \/ GSleep2

\* the SendGraphite thread keeps being scheduled
SpecSinks == InitSinks /\ [][NextSinks]_vars /\ WF_vars(GraphiteWorker)

\* number of accepted graphite sends that carry the timestamp of capture n
GDelivered(n) ==
    Cardinality({i \in DOMAIN gsent : gsent[i].timestamp = float(TsStr[n]).tenths})

====
